---- MODULE Spec2Model ----
(***************************************************************************)
(* A model of PagedDuplexStream                                            *)
(* (src/commands/interface-manager/PagedDuplexStream.ts) and of ServerAcl  *)
(* (src/models/ServerAcl.ts).                                              *)
(*                                                                         *)
(* A JavaScript string is a sequence of characters, a page list is a       *)
(* sequence of strings.  Every public method is one action; the value it   *)
(* returns (or the error it throws) is recorded in lastRet.                *)
(***************************************************************************)
EXTENDS Integers, Sequences, FiniteSets, TLC

\* ------------------------------------------------------------------------
\* Bounds of the exploration
\* ------------------------------------------------------------------------
MaxSizeLimit == 3      \* sizeLimit is drawn from 1..MaxSizeLimit
MaxWritten   == 4      \* total number of characters ever written
MaxWriteLen  == 2      \* longest argument of one writeString call

Chars == {"a", "b"}

\* the server names a ServerAcl is constructed for
Homeservers == {<<"a">>, <<"a", "b">>}
Nodes == {"nodeA", "nodeB"}

MaxEntries   == 2      \* entries (allow and deny together) of a ServerAcl,
                       \* and of a record given to matches

\* the glob patterns a ServerAcl is given
Globs == {<<"*">>, <<"a", "?">>, <<"b">>}

\* new PagedDuplexStream(): the default of the constructor parameter
DefaultSizeLimit == 20000

\* the strings writeString is called with
WriteInputs == UNION {[1..n -> Chars] : n \in 0..MaxWriteLen}

\* ------------------------------------------------------------------------
\* Values of the host language
\* ------------------------------------------------------------------------
Undefined == "undefined"

\* TypeError thrown by commit, line 76
OversizeCommit == "TypeError: Commit is too large, could not write a page for this commit"
\* TypeError raised by the runtime on reading `.length` of undefined
UndefinedDeref == "TypeError: Cannot read properties of undefined"

Returned(kind, val) == [kind |-> kind, val |-> val]
Void            == Returned("void", Undefined)
Absent          == Returned("undefined", Undefined)
Threw(err)      == Returned("throw", err)

\* the argument of a call: the node given to commit, the record given to matches
NoArg == [node |-> Undefined,
          acl  |-> [allow |-> <<>>, deny |-> <<>>, allow_ip_literals |-> FALSE]]
CommitArg(node) == [NoArg EXCEPT !.node = node]
MatchesArg(acl) == [NoArg EXCEPT !.acl = acl]

VARIABLES
    sizeLimit,            \* constructor parameter
    buffer,               \* this.buffer
    pages,                \* this.pages
    lastCommittedNode,    \* this.lastCommittedNode
    lastOp,               \* name of the method called last
    lastRet,              \* what that call returned or threw
    written,              \* history: every writeString argument, concatenated
    drained,              \* history: the pages returned by readPage, in order
    closedLog,            \* history: each page as it was when it stopped being last
    oversizeCommitCalled, \* history: some commit was called with buffer.length > sizeLimit
    lastArg,              \* the argument of the call recorded in lastOp (commit, matches)
    commitRaised,         \* history: some commit has thrown
    drainFrom,            \* history: the pages and the reads when the consumer began to drain
    homeserver,           \* ServerAcl.homeserver
    allowedServers,       \* ServerAcl.allowedServers (a Set: insertion order, no duplicates)
    deniedServers,        \* ServerAcl.deniedServers  (a Set: insertion order, no duplicates)
    allowIps              \* ServerAcl.allowIps

\* the fields of a ServerAcl
aclVars == <<homeserver, allowedServers, deniedServers, allowIps>>

\* the fields of a PagedDuplexStream and the history kept about it
streamVars == <<sizeLimit, buffer, pages, lastCommittedNode, written, drained,
                closedLog, oversizeCommitCalled, commitRaised, drainFrom>>

vars == <<sizeLimit, buffer, pages, lastCommittedNode, lastOp, lastRet,
          written, drained, closedLog, oversizeCommitCalled, lastArg,
          commitRaised, drainFrom, homeserver, allowedServers, deniedServers,
          allowIps>>

\* ------------------------------------------------------------------------
\* Helpers
\* ------------------------------------------------------------------------
RECURSIVE Flatten(_)
Flatten(ss) == IF Len(ss) = 0 THEN <<>> ELSE Head(ss) \o Flatten(Tail(ss))

Front(s) == SubSeq(s, 1, Len(s) - 1)

\* ------------------------------------------------------------------------
\* Private members and pure queries
\* ------------------------------------------------------------------------
\* get currentPage(): this.pages.at(this.pages.length - 1)
\* (Array.prototype.at yields undefined on an empty array)
currentPage(p) == IF Len(p) = 0 THEN Undefined ELSE p[Len(p)]

\* reading .length of the current page is a TypeError when there is no page
currentPageMissing(p) == Len(p) = 0

\* appendToCurrentPage putting the new text in front of the page
appendToCurrentPage_Prepends(p, s) == [p EXCEPT ![Len(p)] = s \o @]

\* appendToCurrentPage writing to the first page instead of the last one
appendToCurrentPage_FirstPage(p, s) == [p EXCEPT ![1] = @ \o s]

\* appendToCurrentPage(string)
appendToCurrentPage(p, s) == [p EXCEPT ![Len(p)] = @ \o s]

\* getPosition()
getPosition(b) == Len(b)

\* isPageAndBufferOverSize looking at the page alone
isPageAndBufferOverSize_IgnoresBuffer(p, b, lim) == Len(currentPage(p)) > lim

\* isPageAndBufferOverSize with a non-strict comparison
isPageAndBufferOverSize_Ge(p, b, lim) == (Len(currentPage(p)) + Len(b)) >= lim

\* isPageAndBufferOverSize()
isPageAndBufferOverSize(p, b, lim) == (Len(currentPage(p)) + Len(b)) > lim

\* ensureNewPage pushing a page whatever the current page holds
ensureNewPage_Always(p) == Append(p, <<>>)

\* ensureNewPage with its test inverted (=== for !==)
ensureNewPage_Inverted(p) == IF Len(currentPage(p)) = 0 THEN Append(p, <<>>) ELSE p

\* ensureNewPage(), as a function of the page list
ensureNewPage(p) == IF Len(currentPage(p)) # 0 THEN Append(p, <<>>) ELSE p

\* commit throwing on every oversize buffer, whatever the current page holds
commitThrows_AnyOversize(p, b, lim) == Len(b) > lim

\* the throw condition of commit, lines 74-76
commitThrows(p, b, lim) ==
    /\ isPageAndBufferOverSize(p, b, lim)
    /\ Len(currentPage(p)) = 0
    /\ Len(b) > lim

\* commit calling ensureNewPage whether or not the page would go over size
commitPages_AlwaysNewPage(p, b, lim) == appendToCurrentPage(ensureNewPage(p), b)

\* the page list a commit that does not throw leaves behind, lines 74-80
commitPages(p, b, lim) ==
    appendToCurrentPage(
        IF isPageAndBufferOverSize(p, b, lim) THEN ensureNewPage(p) ELSE p, b)

\* peekPage treating the only page as ready
peekPage_OffByOne(p) == IF Len(p) < 1 THEN Absent ELSE Returned("page", p[1])

\* peekPage looking at the newest page instead of the oldest
peekPage_ReturnsLast(p) == IF Len(p) < 2 THEN Absent ELSE Returned("page", p[Len(p)])

\* peekPage()
peekPage(p) == IF Len(p) < 2 THEN Absent ELSE Returned("page", p[1])

\* readPage handing out the newest page instead of the oldest
readPageValue_ReturnsLast(p) == IF Len(p) < 2 THEN Absent ELSE Returned("page", p[Len(p)])

\* readPage(): the returned value
readPageValue(p) == IF Len(p) < 2 THEN Absent ELSE Returned("page", Head(p))

\* readPage removing with pop instead of shift
readPagePages_Pops(p) == IF Len(p) < 2 THEN p ELSE Front(p)

\* readPage removing a page as long as there is one
readPagePages_DrainsAll(p) == IF Len(p) < 1 THEN p ELSE Tail(p)

\* readPage(): the page list left behind (Array.prototype.shift)
readPagePages(p) == IF Len(p) < 2 THEN p ELSE Tail(p)

\* pages that stop being the last page when the list goes from p to q by pushes
closedBy(p, q) == IF Len(q) > Len(p) THEN <<currentPage(p)>> ELSE <<>>

\* ------------------------------------------------------------------------
\* Initial state: field initialisers and constructor, lines 17-24
\* ------------------------------------------------------------------------
NotDraining == [active |-> FALSE, pages |-> <<>>, reads |-> 0]

\* new PagedDuplexStream(limit)
StreamConstructed(limit) ==
    /\ sizeLimit = limit
    /\ buffer = <<>>
    /\ pages = << <<>> >>
    /\ lastCommittedNode = Undefined
    /\ written = <<>>
    /\ drained = <<>>
    /\ closedLog = <<>>
    /\ oversizeCommitCalled = FALSE
    /\ commitRaised = FALSE
    /\ drainFrom = NotDraining

\* new ServerAcl(hs), ServerAcl.ts lines 38-44
AclConstructed(hs) ==
    /\ homeserver = hs
    /\ allowedServers = <<>>
    /\ deniedServers = <<>>
    /\ allowIps = FALSE

Init ==
    /\ \E limit \in 1..MaxSizeLimit : StreamConstructed(limit)
    /\ AclConstructed(CHOOSE hs \in Homeservers : TRUE)
    /\ lastOp = "constructor"
    /\ lastRet = Void
    /\ lastArg = NoArg

\* ------------------------------------------------------------------------
\* Public methods
\* ------------------------------------------------------------------------
WriteString ==
    \E s \in WriteInputs :
        /\ Len(written) + Len(s) <= MaxWritten
        /\ buffer' = buffer \o s
        /\ written' = written \o s
        /\ lastOp' = "writeString"
        /\ lastRet' = Returned("self", Undefined)
        /\ lastArg' = NoArg
        /\ UNCHANGED <<sizeLimit, pages, lastCommittedNode, drained, closedLog,
                       oversizeCommitCalled, commitRaised, drainFrom, aclVars>>

GetPosition ==
    /\ lastOp' = "getPosition"
    /\ lastRet' = Returned("int", getPosition(buffer))
    /\ UNCHANGED <<sizeLimit, buffer, pages, lastCommittedNode, written, drained,
                   closedLog, oversizeCommitCalled, commitRaised, drainFrom, aclVars>>
    /\ lastArg' = NoArg

IsPageAndBufferOverSize ==
    /\ lastOp' = "isPageAndBufferOverSize"
    /\ lastRet' = IF currentPageMissing(pages) THEN Threw(UndefinedDeref)
                  ELSE Returned("bool", isPageAndBufferOverSize(pages, buffer, sizeLimit))
    /\ UNCHANGED <<sizeLimit, buffer, pages, lastCommittedNode, written, drained,
                   closedLog, oversizeCommitCalled, commitRaised, drainFrom, aclVars>>
    /\ lastArg' = NoArg

EnsureNewPage ==
    /\ lastOp' = "ensureNewPage"
    /\ IF currentPageMissing(pages)
       THEN /\ lastRet' = Threw(UndefinedDeref)
            /\ UNCHANGED <<pages, closedLog>>
       ELSE /\ lastRet' = Void
            /\ pages' = ensureNewPage(pages)
            /\ closedLog' = closedLog \o closedBy(pages, ensureNewPage(pages))
    /\ lastArg' = NoArg
    /\ UNCHANGED <<sizeLimit, buffer, lastCommittedNode, written, drained,
                   oversizeCommitCalled, commitRaised, drainFrom, aclVars>>

\* commit recording the node before it checks the size
Commit_RecordsNodeFirst ==
    \E node \in Nodes :
        /\ lastOp' = "commit"
        /\ lastArg' = CommitArg(node)
        /\ oversizeCommitCalled' = (oversizeCommitCalled \/ Len(buffer) > sizeLimit)
        /\ commitRaised' = (commitRaised \/ currentPageMissing(pages)
                                         \/ commitThrows(pages, buffer, sizeLimit))
        /\ lastCommittedNode' = node
        /\ IF currentPageMissing(pages)
           THEN /\ lastRet' = Threw(UndefinedDeref)
                /\ UNCHANGED <<buffer, pages, closedLog>>
           ELSE IF commitThrows(pages, buffer, sizeLimit)
           THEN /\ lastRet' = Threw(OversizeCommit)
                /\ UNCHANGED <<buffer, pages, closedLog>>
           ELSE /\ lastRet' = Void
                /\ pages' = commitPages(pages, buffer, sizeLimit)
                /\ closedLog' = closedLog \o
                                  closedBy(pages, commitPages(pages, buffer, sizeLimit))
                /\ buffer' = <<>>
        /\ UNCHANGED <<sizeLimit, written, drained, drainFrom, aclVars>>

\* commit returning early, before it records the node, when nothing is buffered
Commit_SkipsEmptyBuffer ==
    \E node \in Nodes :
        /\ lastOp' = "commit"
        /\ lastArg' = CommitArg(node)
        /\ oversizeCommitCalled' = (oversizeCommitCalled \/ Len(buffer) > sizeLimit)
        /\ commitRaised' = (commitRaised \/ currentPageMissing(pages)
                                         \/ commitThrows(pages, buffer, sizeLimit))
        /\ IF currentPageMissing(pages)
           THEN /\ lastRet' = Threw(UndefinedDeref)
                /\ UNCHANGED <<buffer, pages, lastCommittedNode, closedLog>>
           ELSE IF commitThrows(pages, buffer, sizeLimit)
           THEN /\ lastRet' = Threw(OversizeCommit)
                /\ UNCHANGED <<buffer, pages, lastCommittedNode, closedLog>>
           ELSE /\ lastRet' = Void
                /\ pages' = commitPages(pages, buffer, sizeLimit)
                /\ closedLog' = closedLog \o
                                  closedBy(pages, commitPages(pages, buffer, sizeLimit))
                /\ buffer' = <<>>
                /\ lastCommittedNode' = IF buffer = <<>> THEN lastCommittedNode ELSE node
        /\ UNCHANGED <<sizeLimit, written, drained, drainFrom, aclVars>>

Commit ==
    \E node \in Nodes :
        /\ lastOp' = "commit"
        /\ lastArg' = CommitArg(node)
        /\ oversizeCommitCalled' = (oversizeCommitCalled \/ Len(buffer) > sizeLimit)
        /\ commitRaised' = (commitRaised \/ currentPageMissing(pages)
                                         \/ commitThrows(pages, buffer, sizeLimit))
        /\ IF currentPageMissing(pages)
           THEN /\ lastRet' = Threw(UndefinedDeref)
                /\ UNCHANGED <<buffer, pages, lastCommittedNode, closedLog>>
           ELSE IF commitThrows(pages, buffer, sizeLimit)
           THEN /\ lastRet' = Threw(OversizeCommit)
                /\ UNCHANGED <<buffer, pages, lastCommittedNode, closedLog>>
           ELSE /\ lastRet' = Void
                /\ pages' = commitPages(pages, buffer, sizeLimit)
                /\ closedLog' = closedLog \o
                                  closedBy(pages, commitPages(pages, buffer, sizeLimit))
                /\ buffer' = <<>>
                /\ lastCommittedNode' = node
        /\ UNCHANGED <<sizeLimit, written, drained, drainFrom, aclVars>>

GetLastCommittedNode ==
    /\ lastOp' = "getLastCommittedNode"
    /\ lastRet' = Returned("node", lastCommittedNode)
    /\ UNCHANGED <<sizeLimit, buffer, pages, lastCommittedNode, written, drained,
                   closedLog, oversizeCommitCalled, commitRaised, drainFrom, aclVars>>
    /\ lastArg' = NoArg

PeekPage ==
    /\ lastOp' = "peekPage"
    /\ lastRet' = peekPage(pages)
    /\ UNCHANGED <<sizeLimit, buffer, pages, lastCommittedNode, written, drained,
                   closedLog, oversizeCommitCalled, commitRaised, drainFrom, aclVars>>
    /\ lastArg' = NoArg

ReadPage ==
    /\ lastOp' = "readPage"
    /\ lastRet' = readPageValue(pages)
    /\ pages' = readPagePages(pages)
    /\ drained' = IF readPageValue(pages).kind = "page"
                  THEN Append(drained, readPageValue(pages).val)
                  ELSE drained
    /\ lastArg' = NoArg
    /\ UNCHANGED <<sizeLimit, buffer, lastCommittedNode, written, closedLog,
                   oversizeCommitCalled, commitRaised, drainFrom, aclVars>>

Next ==
    \/ WriteString
    \/ GetPosition
    \/ IsPageAndBufferOverSize
    \/ EnsureNewPage
    \/ Commit
    \/ GetLastCommittedNode
    \/ PeekPage
    \/ ReadPage

Spec == Init /\ [][Next]_vars

\* ------------------------------------------------------------------------
\* A stream whose consumer, from some point on, only drains: the producer
\* commits and rolls over until then, and readPage is called again and again
\* afterwards (writeString, which touches no page, may still be called).
\* ------------------------------------------------------------------------
\* the consumer begins to drain: no commit and no ensureNewPage from here on
StartDrain ==
    /\ ~drainFrom.active
    /\ drainFrom' = [active |-> TRUE, pages |-> pages, reads |-> Len(drained)]
    /\ UNCHANGED <<sizeLimit, buffer, pages, lastCommittedNode, lastOp, lastRet,
                   written, drained, closedLog, oversizeCommitCalled, lastArg,
                   commitRaised, aclVars>>

\* commit, called before the drain has begun
FillCommit == ~drainFrom.active /\ Commit

\* ensureNewPage, called before the drain has begun
FillEnsureNewPage == ~drainFrom.active /\ EnsureNewPage

\* readPage, called by the draining consumer
DrainRead == drainFrom.active /\ ReadPage

NextDrain ==
    \/ WriteString
    \/ FillCommit
    \/ FillEnsureNewPage
    \/ ReadPage
    \/ StartDrain

\* the consumer keeps calling readPage once it drains
SpecDrain == Init /\ [][NextDrain]_vars /\ WF_vars(DrainRead)

\* ------------------------------------------------------------------------
\* ServerAcl (src/models/ServerAcl.ts)
\* ------------------------------------------------------------------------
Range(f) == {f[i] : i \in DOMAIN f}

\* lists of at most n glob patterns, duplicates allowed
GlobLists(n) == UNION {[1..k -> Globs] : k \in 0..n}

\* the records matches is called with
AclInputs ==
    {acl \in [allow : GlobLists(MaxEntries), deny : GlobLists(MaxEntries),
              allow_ip_literals : BOOLEAN] :
        Len(acl.allow) + Len(acl.deny) <= MaxEntries}

\* new MatrixGlob(glob).test(val): `*` stands for any run of characters,
\* `?` for any one character, the whole value must match
RECURSIVE GlobTest(_, _)
GlobTest(glob, val) ==
    IF glob = <<>> THEN val = <<>>
    ELSE IF Head(glob) = "*"
         THEN GlobTest(Tail(glob), val) \/ (val # <<>> /\ GlobTest(glob, Tail(val)))
         ELSE /\ val # <<>>
              /\ (Head(glob) = "?" \/ Head(glob) = Head(val))
              /\ GlobTest(Tail(glob), Tail(val))

\* Set.prototype.add
SetAdd(set, v) == IF v \in Range(set) THEN set ELSE Append(set, v)

\* new Set(values)
RECURSIVE NewSet(_)
NewSet(values) ==
    IF values = <<>> THEN <<>>
    ELSE SetAdd(NewSet(Front(values)), values[Len(values)])

\* setToArray(set): the elements of the set, in insertion order
setToArray(set) == [i \in 1..Len(set) |-> set[i]]

\* safeDeniedServers dropping only the entry that is the homeserver's name
safeDeniedServers_ExactMatch(denied, hs) == SelectSeq(denied, LAMBDA server : server # hs)

\* safeDeniedServers()
safeDeniedServers(denied, hs) ==
    SelectSeq(denied, LAMBDA server : ~GlobTest(server, hs))

\* literalAclContent()
literalAclContent(allowed, denied, ips) ==
    [allow |-> setToArray(allowed), deny |-> setToArray(denied), allow_ip_literals |-> ips]

\* safeAclContent()
safeAclContent(allowed, denied, ips, hs) ==
    [allow |-> IF Len(setToArray(allowed)) = 0 THEN <<<<"*">>>> ELSE setToArray(allowed),
     deny  |-> safeDeniedServers(denied, hs),
     allow_ip_literals |-> ips]

\* the loop of matches over one of the two lists, lines 135-143 and 145-153
listMatches(list, current) ==
    /\ Len(list) = Len(current)
    /\ \A i \in 1..Len(list) : list[i] \in Range(current)

\* matches(acl), acl being a record
matches(acl, allowed, denied, ips) ==
    /\ listMatches(acl.deny, setToArray(denied))
    /\ listMatches(acl.allow, setToArray(allowed))
    /\ acl.allow_ip_literals = ips

InitAcl ==
    /\ StreamConstructed(DefaultSizeLimit)
    /\ \E hs \in Homeservers : AclConstructed(hs)
    /\ lastOp = "constructor"
    /\ lastRet = Void
    /\ lastArg = NoArg

AllowIpAddresses ==
    /\ allowIps' = TRUE
    /\ lastOp' = "allowIpAddresses"
    /\ lastRet' = Returned("self", Undefined)
    /\ lastArg' = NoArg
    /\ UNCHANGED <<homeserver, allowedServers, deniedServers, streamVars>>

DenyIpAddresses ==
    /\ allowIps' = FALSE
    /\ lastOp' = "denyIpAddresses"
    /\ lastRet' = Returned("self", Undefined)
    /\ lastArg' = NoArg
    /\ UNCHANGED <<homeserver, allowedServers, deniedServers, streamVars>>

AllowServer ==
    \E glob \in Globs :
        /\ Len(SetAdd(allowedServers, glob)) + Len(deniedServers) <= MaxEntries
        /\ allowedServers' = SetAdd(allowedServers, glob)
        /\ lastOp' = "allowServer"
        /\ lastRet' = Returned("self", Undefined)
        /\ lastArg' = NoArg
        /\ UNCHANGED <<homeserver, deniedServers, allowIps, streamVars>>

SetAllowedServers ==
    \E globs \in GlobLists(MaxEntries) :
        /\ Len(NewSet(globs)) + Len(deniedServers) <= MaxEntries
        /\ allowedServers' = NewSet(globs)
        /\ lastOp' = "setAllowedServers"
        /\ lastRet' = Returned("self", Undefined)
        /\ lastArg' = NoArg
        /\ UNCHANGED <<homeserver, deniedServers, allowIps, streamVars>>

DenyServer ==
    \E glob \in Globs :
        /\ Len(allowedServers) + Len(SetAdd(deniedServers, glob)) <= MaxEntries
        /\ deniedServers' = SetAdd(deniedServers, glob)
        /\ lastOp' = "denyServer"
        /\ lastRet' = Returned("self", Undefined)
        /\ lastArg' = NoArg
        /\ UNCHANGED <<homeserver, allowedServers, allowIps, streamVars>>

SetDeniedServers ==
    \E globs \in GlobLists(MaxEntries) :
        /\ Len(allowedServers) + Len(NewSet(globs)) <= MaxEntries
        /\ deniedServers' = NewSet(globs)
        /\ lastOp' = "setDeniedServers"
        /\ lastRet' = Returned("self", Undefined)
        /\ lastArg' = NoArg
        /\ UNCHANGED <<homeserver, allowedServers, allowIps, streamVars>>

SafeDeniedServers ==
    /\ lastOp' = "safeDeniedServers"
    /\ lastRet' = Returned("list", safeDeniedServers(deniedServers, homeserver))
    /\ lastArg' = NoArg
    /\ UNCHANGED <<aclVars, streamVars>>

LiteralAclContent ==
    /\ lastOp' = "literalAclContent"
    /\ lastRet' = Returned("content",
                           literalAclContent(allowedServers, deniedServers, allowIps))
    /\ lastArg' = NoArg
    /\ UNCHANGED <<aclVars, streamVars>>

SafeAclContent ==
    /\ lastOp' = "safeAclContent"
    /\ lastRet' = Returned("content",
                           safeAclContent(allowedServers, deniedServers, allowIps, homeserver))
    /\ lastArg' = NoArg
    /\ UNCHANGED <<aclVars, streamVars>>

Matches ==
    \E acl \in AclInputs :
        /\ lastOp' = "matches"
        /\ lastRet' = Returned("bool", matches(acl, allowedServers, deniedServers, allowIps))
        /\ lastArg' = MatchesArg(acl)
        /\ UNCHANGED <<aclVars, streamVars>>

NextAcl ==
    \/ AllowIpAddresses
    \/ DenyIpAddresses
    \/ AllowServer
    \/ SetAllowedServers
    \/ DenyServer
    \/ SetDeniedServers
    \/ SafeDeniedServers
    \/ LiteralAclContent
    \/ SafeAclContent
    \/ Matches

SpecAcl == InitAcl /\ [][NextAcl]_vars

\* ------------------------------------------------------------------------
\* Properties
\* ------------------------------------------------------------------------
WithinLimit(ss) == \A i \in 1..Len(ss) : Len(ss[i]) <= sizeLimit

CommitReturned == lastOp = "commit" /\ lastRet.kind = "void"
CommitThrew    == lastOp = "commit" /\ lastRet.kind = "throw"

\* C1: as long as no commit was called with an accumulator longer than
\* sizeLimit, every page still in the page sequence and every page readPage
\* has returned is at most sizeLimit long.
C1_PagesWithinLimit ==
    ~oversizeCommitCalled => (WithinLimit(pages) /\ WithinLimit(drained))

\* a full page has been rolled over and read, and the current page is full too
C1_Witness ==
    /\ ~oversizeCommitCalled
    /\ Len(drained) >= 1
    /\ Len(drained[1]) = sizeLimit
    /\ Len(currentPage(pages)) = sizeLimit

\* C2: the pages returned by readPage, then the pages still in the sequence,
\* then the accumulator, concatenated, are exactly the text written, in order.
C2_NoTextLost ==
    Flatten(drained) \o Flatten(pages) \o buffer = written

\* text of both characters is spread over drained pages, kept pages and the accumulator
C2_Witness ==
    /\ Len(drained) >= 1
    /\ Len(pages) >= 2
    /\ buffer # <<>>
    /\ \E i, j \in 1..Len(written) : written[i] # written[j]
    /\ lastCommittedNode # Undefined

\* C3: after every commit that returns without raising, the current page is
\* at most sizeLimit long.
C3_CommittedPageWithinLimit ==
    CommitReturned => Len(currentPage(pages)) <= sizeLimit

C5_FailedCommitChangesNothing ==
    [][ (lastOp' = "commit" /\ lastRet'.kind = "throw") =>
            /\ buffer' = buffer
            /\ pages' = pages
            /\ lastCommittedNode' = lastCommittedNode
      ]_vars

\* a commit has raised after earlier commits had succeeded and closed a page
C5_Witness ==
    /\ CommitThrew
    /\ Len(pages) >= 2
    /\ lastCommittedNode # Undefined
    /\ Len(buffer) > sizeLimit

\* C6: commit raises whenever the accumulator is longer than sizeLimit when
\* it is called.
C6_ThrowsWheneverBufferOversize ==
    [][ (lastOp' = "commit" /\ Len(buffer) > sizeLimit) => lastRet'.kind = "throw" ]_vars

\* C7: the pages returned by readPage are the closed pages, in the order in
\* which they were closed, each once; a call that returns a page removes
\* exactly one page.
C7_FifoDrain ==
    /\ [](closedLog = drained \o Front(pages))
    /\ [][ (lastOp' = "readPage" /\ lastRet'.kind = "page") =>
               /\ Len(pages') = Len(pages) - 1
               /\ Len(drained') = Len(drained) + 1
      ]_vars

\* two different pages have been read and a third is waiting
C7_Witness ==
    /\ lastOp = "readPage"
    /\ lastRet.kind = "page"
    /\ Len(drained) = 2
    /\ drained[1] # drained[2]
    /\ Len(pages) >= 2

\* C8: there is always a page; readPage and peekPage return absent exactly
\* when fewer than two pages exist, readPage then changes nothing, and a
\* readPage that returns a page leaves the current page in place.
C8_CurrentPageStays ==
    /\ [](Len(pages) >= 1)
    /\ [][ /\ lastOp' \in {"readPage", "peekPage"} =>
                ((lastRet'.kind = "undefined") <=> (Len(pages) < 2))
           /\ (lastOp' = "readPage" /\ Len(pages) < 2) =>
                UNCHANGED <<buffer, pages, lastCommittedNode, drained>>
           /\ (lastOp' = "readPage" /\ Len(pages) >= 2) =>
                /\ lastRet'.kind = "page"
                /\ lastRet'.val = pages[1]
                /\ Len(pages') >= 1
                /\ currentPage(pages') = currentPage(pages)
      ]_vars

\* readPage has returned absent although the only page holds committed text
C8_Witness ==
    /\ lastOp = "readPage"
    /\ lastRet.kind = "undefined"
    /\ Len(pages) = 1
    /\ Len(pages[1]) >= 1
    /\ Len(drained) >= 1

\* C9: a commit called with currentPage.length + accumulator.length equal to
\* sizeLimit appends to the existing current page, which becomes exactly
\* sizeLimit long, and closes no page; isPageAndBufferOverSize returns true
\* exactly when the combined length is greater than sizeLimit.
C9_BoundaryInclusive ==
    [][ /\ (lastOp' = "commit" /\ Len(currentPage(pages)) + Len(buffer) = sizeLimit) =>
                /\ lastRet'.kind = "void"
                /\ Len(pages') = Len(pages)
                /\ Front(pages') = Front(pages)
                /\ currentPage(pages') = currentPage(pages) \o buffer
                /\ Len(currentPage(pages')) = sizeLimit
                /\ closedLog' = closedLog
                /\ buffer' = <<>>
        /\ lastOp' = "isPageAndBufferOverSize" =>
                /\ lastRet'.kind = "bool"
                /\ lastRet'.val <=> (Len(currentPage(pages)) + Len(buffer) > sizeLimit)
      ]_vars

\* a commit has filled the first page to exactly sizeLimit without closing it
C9_Witness ==
    /\ CommitReturned
    /\ closedLog = <<>>
    /\ Len(pages) = 1
    /\ Len(currentPage(pages)) = sizeLimit
    /\ sizeLimit >= 2

\* C10: a page that is not the last page is never changed: every step keeps
\* it as it is (readPage moving it one place down), a page returned by
\* readPage is as it was when it was closed, and only the last page grows.
C10_ClosedPagesImmutable ==
    [][ IF lastOp' = "readPage" /\ lastRet'.kind = "page"
        THEN /\ Len(drained) < Len(closedLog)
             /\ lastRet'.val = closedLog[Len(drained) + 1]
             /\ Len(pages') = Len(pages) - 1
             /\ \A i \in 2..Len(pages) : pages'[i - 1] = pages[i]
        ELSE /\ Len(pages') >= Len(pages)
             /\ \A i \in 1..(Len(pages) - 1) : pages'[i] = pages[i]
      ]_vars

\* a commit has succeeded while two closed pages were waiting and one had been read
C10_Witness ==
    /\ CommitReturned
    /\ Len(pages) >= 3
    /\ Len(drained) >= 1
    /\ Len(currentPage(pages)) >= 1

NonEmpty(ss) == \A i \in 1..Len(ss) : Len(ss[i]) >= 1

\* C11: every page other than the last is non-empty, so peekPage and readPage
\* never return an empty string, and no step pushes a page while the current
\* page is empty (ensureNewPage may be called directly at any point).
C11_ReadyPagesNonEmpty ==
    /\ [](NonEmpty(Front(pages)))
    /\ [][ /\ (lastOp' \in {"peekPage", "readPage"} /\ lastRet'.kind = "page") =>
                Len(lastRet'.val) >= 1
           /\ Len(pages') > Len(pages) => Len(currentPage(pages)) >= 1
      ]_vars

\* ensureNewPage was called directly, after a commit, and left an empty current
\* page behind a non-empty ready page
C11_Witness ==
    /\ lastOp = "ensureNewPage"
    /\ Len(pages) >= 2
    /\ Len(currentPage(pages)) = 0
    /\ lastCommittedNode # Undefined

NoTwoEmptyInARow(ss) ==
    \A i \in 1..(Len(ss) - 1) : ~(Len(ss[i]) = 0 /\ Len(ss[i + 1]) = 0)

\* C12 as stated: no two consecutive pages are both empty, and once a commit
\* has succeeded no page at all (the current page included) is empty.
C12_NoEmptyPageAfterCommit ==
    /\ NoTwoEmptyInARow(pages)
    /\ lastCommittedNode # Undefined => NonEmpty(pages)

\* C12 amended: no two consecutive pages are both empty, an empty page is
\* always the last page, and right after a successful commit of a non-empty
\* accumulator no page at all is empty.
C12_EmptyPageOnlyLast ==
    /\ [](/\ NoTwoEmptyInARow(pages)
          /\ \A i \in 1..Len(pages) : Len(pages[i]) = 0 => i = Len(pages))
    /\ [][ (lastOp' = "commit" /\ lastRet'.kind = "void" /\ Len(buffer) >= 1) =>
                NonEmpty(pages')
      ]_vars

\* a non-empty accumulator has been committed after a direct ensureNewPage
\* had left an empty current page
C12_Witness ==
    /\ CommitReturned
    /\ Len(pages) >= 2
    /\ Len(closedLog) >= 1
    /\ Len(closedLog[Len(closedLog)]) + Len(currentPage(pages)) <= sizeLimit
    /\ NonEmpty(pages)

\* C13: the last committed node is absent at first and changes only in a
\* commit that returns, which sets it to its argument (also when nothing was
\* buffered); getLastCommittedNode returns it.
C13_LastCommittedNode ==
    /\ lastCommittedNode = Undefined
    /\ [][ /\ lastCommittedNode' # lastCommittedNode =>
                (lastOp' = "commit" /\ lastRet'.kind = "void")
           /\ (lastOp' = "commit" /\ lastRet'.kind = "void") =>
                (lastCommittedNode' = lastArg'.node /\ lastArg'.node \in Nodes)
           /\ lastOp' = "getLastCommittedNode" =>
                (lastRet'.kind = "node" /\ lastRet'.val = lastCommittedNode)
      ]_vars

\* the node of an earlier commit is returned after a later commit has thrown
C13_Witness ==
    /\ lastOp = "getLastCommittedNode"
    /\ lastRet.kind = "node"
    /\ lastRet.val = "nodeB"
    /\ commitRaised
    /\ Len(buffer) > sizeLimit

SameReturn(r1, r2) ==
    /\ r1.kind = r2.kind
    /\ r1.kind = "page" => r1.val = r2.val

\* C14: peekPage changes nothing, and a readPage called right after it, in
\* the same state, returns what peekPage returned.
C14_PeekAgreesWithRead ==
    [][ /\ lastOp' = "peekPage" =>
                /\ UNCHANGED <<buffer, pages, lastCommittedNode, drained, closedLog>>
                /\ lastRet'.kind \in {"page", "undefined"}
        /\ (lastOp = "peekPage" /\ lastOp' = "readPage") => SameReturn(lastRet, lastRet')
      ]_vars

\* peekPage has returned the oldest of two different ready pages
C14_Witness ==
    /\ lastOp = "peekPage"
    /\ lastRet.kind = "page"
    /\ Len(pages) >= 3
    /\ pages[1] # pages[2]
    /\ lastRet.val = pages[1]

\* C17: a commit that returns pushes exactly one page, and puts the
\* accumulator on it, exactly when the combined length is over sizeLimit and
\* the current page is non-empty; otherwise it appends to the current page
\* and pushes nothing; either way the accumulator is empty afterwards.
C17_RolloverExactlyWhenOver ==
    [][ (lastOp' = "commit" /\ lastRet'.kind = "void") =>
            /\ buffer' = <<>>
            /\ Len(pages') <= Len(pages) + 1
            /\ IF Len(currentPage(pages)) + Len(buffer) > sizeLimit
                  /\ Len(currentPage(pages)) >= 1
               THEN pages' = Append(pages, buffer)
               ELSE pages' = [pages EXCEPT ![Len(pages)] = @ \o buffer]
      ]_vars

\* a commit has rolled over: the page it closed and the page it started do
\* not fit together
C17_Witness ==
    /\ CommitReturned
    /\ ~oversizeCommitCalled
    /\ Len(pages) >= 2
    /\ Len(closedLog) >= 1
    /\ Len(currentPage(pages)) >= 1
    /\ Len(closedLog[Len(closedLog)]) + Len(currentPage(pages)) > sizeLimit

\* C18: once a commit has thrown, the current page stays empty and the
\* accumulator stays over sizeLimit, so every later commit throws the
\* oversize-commit error too.
C18_OversizeIsPermanent ==
    commitRaised =>
        /\ Len(currentPage(pages)) = 0
        /\ Len(buffer) > sizeLimit
        /\ lastOp = "commit" => (lastRet.kind = "throw" /\ lastRet.val = OversizeCommit)

\* a commit has thrown again after a page was read and more text was written
C18_Witness ==
    /\ commitRaised
    /\ CommitThrew
    /\ Len(drained) >= 1
    /\ Len(pages) = 1
    /\ Len(buffer) >= sizeLimit + 2

\* C19: a commit closes a page only when the text it commits does not fit on
\* it: the closed page and the first text on the page after it are together
\* longer than sizeLimit, and a commit whose text fits closes nothing.
C19_GreedyPacking ==
    [][ lastOp' = "commit" =>
            /\ Len(pages') > Len(pages) =>
                  /\ pages'[Len(pages)] = currentPage(pages)
                  /\ currentPage(pages') = buffer
                  /\ Len(pages'[Len(pages)]) + Len(currentPage(pages')) > sizeLimit
            /\ Len(currentPage(pages)) + Len(buffer) <= sizeLimit =>
                  Len(pages') = Len(pages)
      ]_vars

\* a page that was not full has been closed by a commit that did not fit on it
C19_Witness ==
    /\ CommitReturned
    /\ ~oversizeCommitCalled
    /\ Len(pages) >= 2
    /\ Len(pages[Len(pages) - 1]) < sizeLimit
    /\ Len(pages[Len(pages) - 1]) + Len(currentPage(pages)) > sizeLimit

BansHomeserver(server) == GlobTest(server, homeserver)

\* what the claim asks of a list of deny entries handed out as safe
SafeDenyList(list) ==
    /\ \A i \in 1..Len(list) : ~BansHomeserver(list[i])
    /\ Range(list) = {server \in Range(deniedServers) : ~BansHomeserver(server)}

\* C15: the list safeDeniedServers returns, and the deny field of
\* safeAclContent, hold exactly the denied entries whose glob does not match
\* the homeserver; the allow field of safeAclContent is never empty and is
\* ["*"] when no server has been allowed.
C15_NeverBansOwnHomeserver ==
    /\ (lastOp = "safeDeniedServers" /\ lastRet.kind = "list") => SafeDenyList(lastRet.val)
    /\ lastOp = "safeDeniedServers" => lastRet.kind = "list"
    /\ lastOp = "safeAclContent" =>
            /\ lastRet.kind = "content"
            /\ SafeDenyList(lastRet.val.deny)
            /\ Len(lastRet.val.allow) >= 1
            /\ allowedServers = <<>> => lastRet.val.allow = <<<<"*">>>>

\* safeDeniedServers has dropped a wildcard entry that matches the homeserver
\* and kept an entry that does not
C15_Witness ==
    /\ lastOp = "safeDeniedServers"
    /\ lastRet.kind = "list"
    /\ Len(lastRet.val) = 1
    /\ Len(deniedServers) = 2
    /\ \E i \in 1..2 : deniedServers[i] # homeserver /\ BansHomeserver(deniedServers[i])

\* C16: matches(acl) is true exactly when the entries of acl.allow are the
\* allowed servers, the entries of acl.deny are the denied servers and
\* acl.allow_ip_literals is the IP-literal flag.
C16_MatchesIsValueEquality ==
    (lastOp = "matches" /\ lastRet.kind = "bool") =>
        (lastRet.val <=>
            /\ Range(lastArg.acl.allow) = Range(allowedServers)
            /\ Range(lastArg.acl.deny) = Range(deniedServers)
            /\ lastArg.acl.allow_ip_literals = allowIps)

\* the number of pages readPage has returned since the drain began
DrainReads == Len(drained) - drainFrom.reads

\* the drain is over: readPage has returned absent, n-1 pages were returned
\* and the page sequence is the current page alone
DrainDone ==
    /\ drainFrom.active
    /\ lastOp = "readPage"
    /\ lastRet.kind = "undefined"
    /\ DrainReads = Len(drainFrom.pages) - 1
    /\ Len(pages) = 1

\* C20: when the consumer keeps calling readPage on n pages and nothing is
\* committed or pushed any more, the calls return the first n-1 pages, one
\* each, and from then on absent; the page sequence ends as the current page
\* alone, which the drain never changes nor returns.
C20_DrainLeavesCurrentPage ==
    /\ [](drainFrom.active =>
            /\ Len(pages) >= 1
            /\ DrainReads + Len(pages) = Len(drainFrom.pages)
            /\ SubSeq(drained, drainFrom.reads + 1, Len(drained)) \o pages = drainFrom.pages
            /\ currentPage(pages) = currentPage(drainFrom.pages)
            /\ (lastOp = "readPage" /\ lastRet.kind = "undefined") =>
                    (DrainReads = Len(drainFrom.pages) - 1 /\ Len(pages) = 1))
    /\ [][ (drainFrom.active /\ lastOp' = "readPage"
              /\ DrainReads = Len(drainFrom.pages) - 1) =>
                (lastRet'.kind = "undefined" /\ pages' = pages /\ drained' = drained)
         ]_vars
    /\ (drainFrom.active ~> DrainDone)

\* a drain that began with three pages has ended with the current page alone
C20_Witness ==
    /\ DrainDone
    /\ Len(drainFrom.pages) >= 3
    /\ Len(currentPage(pages)) >= 1
    /\ pages = <<currentPage(drainFrom.pages)>>

====
